---- MODULE Spec2Model ----
(***************************************************************************)
(* Model of TibSentenceGathering:                                          *)
(*   - sentence_validation.py: replace_sentence_breaks_and_validate, the   *)
(*     character walk that reconciles a target holding <sent_br> tokens    *)
(*     with a source holding newlines;                                     *)
(*   - deduplication.py: create_deduplicated_chunk, save_checkpoint and    *)
(*     process_in_batches, the checkpointed near-duplicate filter;         *)
(*   - sentence_validation.py: process_tibetan_sentences, the line-by-line *)
(*     driver that sorts a JSON-lines file into valid and invalid entries. *)
(* Strings are sequences of one-character strings.                         *)
(***************************************************************************)
EXTENDS Integers, Sequences, FiniteSets, TLC

VARIABLES
    \* ---- sentence_validation.py: one call of the validator
    source,                \* data_point["source"]
    target,                \* data_point["target"]
    vpc,                   \* "call" before the call, "returned" after it
    result,                \* the returned bool
    reconstructed_target,  \* the buffer when the function returned
    steps,                 \* what the main loop did at each target position
    \* ---- deduplication.py: process_in_batches and the files it keeps
    json_data,             \* the input file's records (read-only)
    chunk_size,            \* argument
    checkpoint_interval,   \* argument
    output_file,           \* the persisted unique collection
    duplicates_output_file,\* the persisted duplicate collection
    pc,                    \* where the process is; "idle" when none runs
    lsh,                   \* the MinHashLSH index: key -> MinHash
    processed_batches,     \* where the running invocation started its loop
    batch_num,             \* the loop variable
    deduplicated_entries,  \* in-memory buffer of unique entries
    duplicate_entries,     \* in-memory buffer of duplicate entries
    call,                  \* arguments and results of the last create_deduplicated_chunk
    kills,                 \* number of times a running process was killed
    kills_between_batches, \* every kill so far fell between two batches
    completed,             \* number of invocations that ran to their end
    \* ---- sentence_validation.py: one call of process_tibetan_sentences
    infile,                \* the input file's lines, as json.loads sees them
    input_exists,          \* os.path.exists(input_json_path)
    unreadable_line,       \* the line whose read raises; 0 when none does
    ppc,                   \* "call", "reading", "returned"
    line_number,           \* the loop variable (1-based), 0 before the loop
    valid_data_points,     \* the local list
    invalid_data_points,   \* the local list
    exit,                  \* how the call ended: "missing", "except", "end"
    returned_lists         \* the returned pair

vvars == <<source, target, vpc, result, reconstructed_target, steps>>

dvars == <<json_data, chunk_size, checkpoint_interval, output_file,
           duplicates_output_file, pc, lsh, processed_batches, batch_num,
           deduplicated_entries, duplicate_entries, call, kills,
           kills_between_batches, completed>>

pvars == <<infile, input_exists, unreadable_line, ppc, line_number,
           valid_data_points, invalid_data_points, exit, returned_lists>>

vars == <<vvars, dvars, pvars>>

(***************************************************************************)
(* Bounds of the validator's inputs: a string is a concatenation of at     *)
(* most MaxSrcPieces (MaxTgtPieces) pieces.                                *)
(***************************************************************************)
MaxSrcPieces == 2
MaxTgtPieces == 3

NL == "\n"
SP == " "

\* The reserved token, "<sent_br>", as the code spells it.
SentBr == <<"<", "s", "e", "n", "t", "_", "b", "r", ">">>

\* The source may spell the token's text; the target may also hold halves of it,
\* which a removed space or a removed token joins.
SrcPieces == { <<"a">>, <<NL>>, <<SP>>, SentBr, <<"a", NL>> }
TgtPieces == { <<"a">>, <<NL>>, <<SP>>, SentBr,
               <<"<", "s", "e", "n", "t">>, <<"_", "b", "r", ">">> }

RECURSIVE Strings(_, _)
Strings(pieces, n) ==
    IF n = 0 THEN { <<>> }
    ELSE LET shorter == Strings(pieces, n - 1)
         IN  shorter \cup { s \o p : s \in shorter, p \in pieces }

(***************************************************************************)
(* sentence_validation.py                                                  *)
(***************************************************************************)

\* str.replace(" ", "")
RemoveSpaces(s) == SelectSeq(s, LAMBDA c : c # SP)

\* s.startswith(prefix, i), i counted from 0
StartsWith(s, prefix, i) ==
    /\ i + Len(prefix) <= Len(s)
    /\ \A k \in 1..Len(prefix) : s[i + k] = prefix[k]

manhattan_distance_zip_only(str1, str2) ==
    LET n == IF Len(str1) < Len(str2) THEN Len(str1) ELSE Len(str2)
    IN  Cardinality({ i \in 1..n : str1[i] # str2[i] })

manhattan_distance(str1, str2) ==
    IF Len(str1) # Len(str2) THEN -1
    ELSE Cardinality({ i \in 1..Len(str1) : str1[i] # str2[i] })

\* One iteration of the main loop at a <sent_br> (lines 51-60): the new
\* src_idx, buffer and log.
TokenBranch_always_advances(src, src_idx, tgt_idx, recon, log) ==
    IF src_idx < Len(src) /\ src[src_idx + 1] = NL
    THEN [src_idx |-> src_idx + 1,
          recon   |-> Append(recon, NL),
          log     |-> Append(log, [kind |-> "br_newline", t |-> tgt_idx, s |-> src_idx])]
    ELSE [src_idx |-> src_idx + 1,
          recon   |-> recon,
          log     |-> Append(log, [kind |-> "br_dropped", t |-> tgt_idx, s |-> src_idx])]

TokenBranch_never_newline(src, src_idx, tgt_idx, recon, log) ==
    [src_idx |-> src_idx,
     recon   |-> recon,
     log     |-> Append(log, [kind |-> "br_dropped", t |-> tgt_idx, s |-> src_idx])]

TokenBranch(src, src_idx, tgt_idx, recon, log) ==
    IF src_idx < Len(src) /\ src[src_idx + 1] = NL
    THEN [src_idx |-> src_idx + 1,
          recon   |-> Append(recon, NL),
          log     |-> Append(log, [kind |-> "br_newline", t |-> tgt_idx, s |-> src_idx])]
    ELSE [src_idx |-> src_idx,
          recon   |-> recon,
          log     |-> Append(log, [kind |-> "br_dropped", t |-> tgt_idx, s |-> src_idx])]

\* The main loop (lines 50-71). early is TRUE when the loop returned False.
RECURSIVE MainLoop(_, _, _, _, _, _)
MainLoop(src, tgt, src_idx, tgt_idx, recon, log) ==
    IF ~(tgt_idx < Len(tgt))
    THEN [early |-> FALSE, src_idx |-> src_idx, recon |-> recon, log |-> log]
    ELSE IF StartsWith(tgt, SentBr, tgt_idx)
    THEN LET b == TokenBranch(src, src_idx, tgt_idx, recon, log)
         IN  MainLoop(src, tgt, b.src_idx, tgt_idx + Len(SentBr), b.recon, b.log)
    ELSE IF src_idx >= Len(src)
    THEN [early |-> TRUE, src_idx |-> src_idx, recon |-> recon, log |-> log]
    ELSE IF tgt[tgt_idx + 1] # src[src_idx + 1]
    THEN [early |-> TRUE, src_idx |-> src_idx,
          recon |-> Append(recon, tgt[tgt_idx + 1]), log |-> log]
    ELSE MainLoop(src, tgt, src_idx + 1, tgt_idx + 1,
                  Append(recon, tgt[tgt_idx + 1]),
                  Append(log, [kind |-> "char", t |-> tgt_idx, s |-> src_idx]))

\* The tail loop (lines 74-78): TRUE when it runs to the end, FALSE when it
\* returns False.
TailLoop(src, src_idx) ==
    \A k \in (src_idx + 1)..Len(src) : src[k] = NL

Validate_skip_distance(src_raw, tgt_raw) ==
    LET source_no_spaces == RemoveSpaces(src_raw)
        target_no_spaces == RemoveSpaces(tgt_raw)
        w == MainLoop(source_no_spaces, target_no_spaces, 0, 0, <<>>, <<>>)
    IN  [ret |-> ~w.early /\ TailLoop(source_no_spaces, w.src_idx),
         early |-> w.early, src_idx |-> w.src_idx, recon |-> w.recon, log |-> w.log]

\* replace_sentence_breaks_and_validate, with the buffer and the log of the
\* walk it made.
Validate(src_raw, tgt_raw) ==
    LET source_no_spaces == RemoveSpaces(src_raw)
        target_no_spaces == RemoveSpaces(tgt_raw)
        w == MainLoop(source_no_spaces, target_no_spaces, 0, 0, <<>>, <<>>)
    IN  IF w.early
        THEN [ret |-> FALSE, early |-> TRUE, src_idx |-> w.src_idx,
              recon |-> w.recon, log |-> w.log]
        ELSE IF ~TailLoop(source_no_spaces, w.src_idx)
        THEN [ret |-> FALSE, early |-> FALSE, src_idx |-> w.src_idx,
              recon |-> w.recon, log |-> w.log]
        ELSE [ret |-> manhattan_distance(source_no_spaces, w.recon) = 0,
              early |-> FALSE, src_idx |-> w.src_idx,
              recon |-> w.recon, log |-> w.log]

replace_sentence_breaks_and_validate(src_raw, tgt_raw) == Validate(src_raw, tgt_raw).ret


(***************************************************************************)
(* deduplication.py                                                        *)
(***************************************************************************)

\* Bounds of the batch pipeline's inputs and histories.
MaxRows == 3
MaxChunkSize == 2
MaxCheckpointInterval == 2
MaxKills == 2
MaxCompleted == 2

\* Input records. A source is given as source_text.split("\n"), the list of
\* its paragraphs; a record may lack "filename" or hold an empty one.
Entries ==
    { [source |-> <<"q", "p", "q">>, target |-> "t1", filename |-> "f1"],
      [source |-> <<"p">>,           target |-> "t2", filename |-> ""],
      [source |-> <<"r">>,           target |-> "t3"] }

RECURSIVE Lists(_, _)
Lists(S, n) ==
    IF n = 0 THEN { <<>> }
    ELSE LET shorter == Lists(S, n - 1)
         IN  shorter \cup { Append(l, e) : l \in shorter, e \in S }

\* datasketch.MinHash over set(source_text.split("\n")): the sketch is a
\* function of the set of paragraphs alone.
MinHash(source_text) == { source_text[i] : i \in 1..Len(source_text) }

\* Pairs of different paragraph sets whose sketches share an LSH band.
BandCollisions == { { {"p", "q"}, {"p"} }, { {"p"}, {"r"} } }

LshCollide(m1, m2) == m1 = m2 \/ { m1, m2 } \in BandCollisions

EmptyLsh == [k \in {} |-> {}]

\* lsh.query(minhash): the keys whose sketch collides with minhash.
LshQuery(index, minhash) == { k \in DOMAIN index : LshCollide(index[k], minhash) }

\* lsh.insert(key, minhash) raises ValueError when the key is present.
LshInsertRaises(index, key) == key \in DOMAIN index

LshInsert(index, key, minhash) == (key :> minhash) @@ index

\* The entry rebuilt for either list (lines 44-46, 50-52).
BuildEntry(entry) ==
    IF "filename" \in DOMAIN entry /\ entry.filename # ""
    THEN [source |-> entry.source, target |-> entry.target, filename |-> entry.filename]
    ELSE [source |-> entry.source, target |-> entry.target]

\* Lines 33-53 for one entry: whether it is unique, the index afterwards, and
\* whether lsh.insert raised.
ChunkStep_insert_always(entry, key, index) ==
    LET minhash == MinHash(entry.source)
    IN  [unique |-> LshQuery(index, minhash) = {},
         raised |-> LshInsertRaises(index, key),
         lsh    |-> IF LshInsertRaises(index, key) THEN index
                    ELSE LshInsert(index, key, minhash)]

ChunkStep(entry, key, index) ==
    LET minhash == MinHash(entry.source)
    IN  IF LshQuery(index, minhash) = {}
        THEN IF LshInsertRaises(index, key)
             THEN [unique |-> TRUE, raised |-> TRUE, lsh |-> index]
             ELSE [unique |-> TRUE, raised |-> FALSE,
                   lsh |-> LshInsert(index, key, minhash)]
        ELSE [unique |-> FALSE, raised |-> FALSE, lsh |-> index]

\* The loop of create_deduplicated_chunk (lines 26-53) from offset idx on.
RECURSIVE ChunkLoop(_, _, _, _, _, _)
ChunkLoop(chunk, idx, start_idx, index, unique_entries, duplicated_entries) ==
    IF idx >= Len(chunk)
    THEN [unique_entries |-> unique_entries,
          duplicated_entries |-> duplicated_entries,
          lsh |-> index, raised |-> FALSE]
    ELSE LET st == ChunkStep(chunk[idx + 1], start_idx + idx, index)
         IN  IF st.raised
             THEN [unique_entries |-> unique_entries,
                   duplicated_entries |-> duplicated_entries,
                   lsh |-> index, raised |-> TRUE]
             ELSE IF st.unique
             THEN ChunkLoop(chunk, idx + 1, start_idx, st.lsh,
                            Append(unique_entries, BuildEntry(chunk[idx + 1])),
                            duplicated_entries)
             ELSE ChunkLoop(chunk, idx + 1, start_idx, st.lsh,
                            unique_entries,
                            Append(duplicated_entries, BuildEntry(chunk[idx + 1])))

create_deduplicated_chunk_own_index(chunk, start_idx, index) ==
    ChunkLoop(chunk, 0, start_idx, EmptyLsh, <<>>, <<>>)

create_deduplicated_chunk_no_else(chunk, start_idx, index) ==
    LET r == ChunkLoop(chunk, 0, start_idx, index, <<>>, <<>>)
    IN  [r EXCEPT !.duplicated_entries = [i \in 1..Len(chunk) |-> BuildEntry(chunk[i])]]

create_deduplicated_chunk(chunk, start_idx, index) ==
    ChunkLoop(chunk, 0, start_idx, index, <<>>, <<>>)

\* A file: whether it exists, and the JSON array it holds.
NoFile == [exists |-> FALSE, entries |-> <<>>]

\* save_checkpoint (lines 58-75): the file afterwards.
save_checkpoint_append_only(file, entries, mode) ==
    [exists |-> TRUE, entries |-> file.entries \o entries]

save_checkpoint(file, entries, mode) ==
    IF mode = "w" \/ ~file.exists
    THEN [exists |-> TRUE, entries |-> entries]
    ELSE [exists |-> TRUE, entries |-> file.entries \o entries]

\* A file left behind by an earlier use of the same output path.
StaleFile == [exists |-> TRUE, entries |-> <<[source |-> <<"r">>, target |-> "t3"]>>]

\* What the two output paths hold before the first invocation: nothing, or
\* one leftover file (with both files present the invocation is a resume,
\* which the histories of the model reach by themselves).
FilesBeforeFirstRun ==
    { <<NoFile, NoFile>>, <<StaleFile, NoFile>>, <<NoFile, StaleFile>> }

total_rows == Len(json_data)

\* Lines 104-106.
total_batches ==
    (total_rows \div chunk_size) + (IF total_rows % chunk_size > 0 THEN 1 ELSE 0)

\* Lines 119-126: the index rebuilt from the persisted unique entries, keyed
\* 0..N-1 in file order.
ReplayIndex_empty(dedup_entries) == EmptyLsh

ReplayIndex_one_based(dedup_entries) ==
    [idx \in 1..Len(dedup_entries) |-> MinHash(dedup_entries[idx].source)]

ReplayIndex(dedup_entries) ==
    [idx \in 0..(Len(dedup_entries) - 1) |-> MinHash(dedup_entries[idx + 1].source)]

\* json_data[start_idx:end_idx]
Slice(data, start_idx, end_idx) == SubSeq(data, start_idx + 1, end_idx)

Min(a, b) == IF a < b THEN a ELSE b

CheckpointDue_interval_only(b) == (b + 1) % checkpoint_interval = 0

\* Line 155-157.
CheckpointDue(b) ==
    (b + 1) % checkpoint_interval = 0 \/ b = total_batches - 1

NoCall == [chunk |-> <<>>, start_idx |-> 0, lsh |-> EmptyLsh,
           unique_entries |-> <<>>, duplicated_entries |-> <<>>]

Running == pc \in { "init_duplicates", "loop", "save_duplicates" }

\* Lines 96-129: a new invocation reads the input, finds where to resume and
\* rebuilds the index, or writes the first of the two empty output files.
Start ==
    /\ pc = "idle" \/ (pc = "done" /\ completed < MaxCompleted)
    /\ deduplicated_entries' = <<>>
    /\ duplicate_entries' = <<>>
    /\ IF output_file.exists /\ duplicates_output_file.exists
       THEN /\ processed_batches' =
                   (Len(output_file.entries) + Len(duplicates_output_file.entries))
                       \div chunk_size
            /\ batch_num' = processed_batches'
            /\ lsh' = ReplayIndex(output_file.entries)
            /\ pc' = "loop"
            /\ UNCHANGED output_file
       ELSE /\ processed_batches' = 0
            /\ batch_num' = 0
            /\ lsh' = EmptyLsh
            /\ output_file' = save_checkpoint(output_file, <<>>, "w")
            /\ pc' = "init_duplicates"
    /\ UNCHANGED <<json_data, chunk_size, checkpoint_interval,
                   duplicates_output_file, call, kills, kills_between_batches,
                   completed, vvars, pvars>>

\* Line 130.
InitDuplicates ==
    /\ pc = "init_duplicates"
    /\ duplicates_output_file' = save_checkpoint(duplicates_output_file, <<>>, "w")
    /\ pc' = "loop"
    /\ UNCHANGED <<json_data, chunk_size, checkpoint_interval, output_file, lsh,
                   processed_batches, batch_num, deduplicated_entries,
                   duplicate_entries, call, kills, kills_between_batches,
                   completed, vvars, pvars>>

\* Lines 142-158: one batch, up to and including the write of the unique
\* collection when a checkpoint is due.
ProcessBatch ==
    /\ pc = "loop"
    /\ batch_num < total_batches
    /\ LET start_idx == batch_num * chunk_size
           end_idx   == Min(start_idx + chunk_size, total_rows)
           chunk     == Slice(json_data, start_idx, end_idx)
           r         == create_deduplicated_chunk(chunk, start_idx, lsh)
       IN  /\ call' = [chunk |-> chunk, start_idx |-> start_idx, lsh |-> lsh,
                       unique_entries |-> r.unique_entries,
                       duplicated_entries |-> r.duplicated_entries]
           /\ lsh' = r.lsh
           /\ IF r.raised
              THEN /\ pc' = "failed"
                   /\ UNCHANGED <<output_file, deduplicated_entries,
                                  duplicate_entries, batch_num>>
              ELSE /\ deduplicated_entries' = deduplicated_entries \o r.unique_entries
                   /\ duplicate_entries' = duplicate_entries \o r.duplicated_entries
                   /\ IF CheckpointDue(batch_num)
                      THEN /\ output_file' =
                                  save_checkpoint(output_file, deduplicated_entries', "a")
                           /\ pc' = "save_duplicates"
                           /\ UNCHANGED batch_num
                      ELSE /\ batch_num' = batch_num + 1
                           /\ pc' = "loop"
                           /\ UNCHANGED output_file
    /\ UNCHANGED <<json_data, chunk_size, checkpoint_interval,
                   duplicates_output_file, processed_batches, kills,
                   kills_between_batches, completed, vvars, pvars>>

\* Lines 159-165: the write of the duplicate collection, then the buffers
\* are cleared.
SaveDuplicates ==
    /\ pc = "save_duplicates"
    /\ duplicates_output_file' =
           save_checkpoint(duplicates_output_file, duplicate_entries, "a")
    /\ deduplicated_entries' = <<>>
    /\ duplicate_entries' = <<>>
    /\ batch_num' = batch_num + 1
    /\ pc' = "loop"
    /\ UNCHANGED <<json_data, chunk_size, checkpoint_interval, output_file, lsh,
                   processed_batches, call, kills, kills_between_batches,
                   completed, vvars, pvars>>

\* Lines 167-177: the loop is over, the totals are read back and printed.
Finish ==
    /\ pc = "loop"
    /\ batch_num >= total_batches
    /\ pc' = "done"
    /\ completed' = completed + 1
    /\ UNCHANGED <<json_data, chunk_size, checkpoint_interval, output_file,
                   duplicates_output_file, lsh, processed_batches, batch_num,
                   deduplicated_entries, duplicate_entries, call, kills,
                   kills_between_batches, vvars, pvars>>

\* The process is killed: its memory is gone, the files stay.
Kill ==
    /\ Running
    /\ kills < MaxKills
    /\ kills' = kills + 1
    /\ kills_between_batches' =
           (kills_between_batches /\ pc = "loop" /\ batch_num < total_batches)
    /\ pc' = "idle"
    /\ lsh' = EmptyLsh
    /\ processed_batches' = 0
    /\ batch_num' = 0
    /\ deduplicated_entries' = <<>>
    /\ duplicate_entries' = <<>>
    /\ call' = NoCall
    /\ UNCHANGED <<json_data, chunk_size, checkpoint_interval, output_file,
                   duplicates_output_file, completed, vvars, pvars>>

VIdle ==
    /\ source = <<>>
    /\ target = <<>>
    /\ vpc = "none"
    /\ result = FALSE
    /\ reconstructed_target = <<>>
    /\ steps = [early |-> FALSE, src_idx |-> 0, log |-> <<>>]

DIdle ==
    /\ json_data = <<>>
    /\ chunk_size = 1
    /\ checkpoint_interval = 1
    /\ output_file = NoFile
    /\ duplicates_output_file = NoFile
    /\ pc = "none"
    /\ lsh = EmptyLsh
    /\ processed_batches = 0
    /\ batch_num = 0
    /\ deduplicated_entries = <<>>
    /\ duplicate_entries = <<>>
    /\ call = NoCall
    /\ kills = 0
    /\ kills_between_batches = TRUE
    /\ completed = 0

NoLists == [valid |-> <<>>, invalid |-> <<>>]

PIdle ==
    /\ infile = <<>>
    /\ input_exists = FALSE
    /\ unreadable_line = 0
    /\ ppc = "none"
    /\ line_number = 0
    /\ valid_data_points = <<>>
    /\ invalid_data_points = <<>>
    /\ exit = "none"
    /\ returned_lists = NoLists

Init ==
    /\ json_data \in Lists(Entries, MaxRows)
    /\ chunk_size \in 1..MaxChunkSize
    /\ checkpoint_interval \in 1..MaxCheckpointInterval
    /\ \E files \in FilesBeforeFirstRun :
           /\ output_file = files[1]
           /\ duplicates_output_file = files[2]
    /\ pc = "idle"
    /\ lsh = EmptyLsh
    /\ processed_batches = 0
    /\ batch_num = 0
    /\ deduplicated_entries = <<>>
    /\ duplicate_entries = <<>>
    /\ call = NoCall
    /\ kills = 0
    /\ kills_between_batches = TRUE
    /\ completed = 0
    /\ VIdle
    /\ PIdle

Next ==
    \/ Start
    \/ InitDuplicates
    \/ ProcessBatch
    \/ SaveDuplicates
    \/ Finish
    \/ Kill

Spec == Init /\ [][Next]_vars

InitV ==
    /\ DIdle
    /\ PIdle
    /\ source \in Strings(SrcPieces, MaxSrcPieces)
    /\ target \in Strings(TgtPieces, MaxTgtPieces)
    /\ vpc = "call"
    /\ result = FALSE
    /\ reconstructed_target = <<>>
    /\ steps = [early |-> FALSE, src_idx |-> 0, log |-> <<>>]

CallValidate ==
    /\ vpc = "call"
    /\ LET v == Validate(source, target)
       IN  /\ result' = v.ret
           /\ reconstructed_target' = v.recon
           /\ steps' = [early |-> v.early, src_idx |-> v.src_idx, log |-> v.log]
    /\ vpc' = "returned"
    /\ UNCHANGED <<source, target, dvars, pvars>>

NextV == CallValidate

SpecV == InitV /\ [][NextV]_vars

(***************************************************************************)
(* sentence_validation.py: process_tibetan_sentences.                      *)
(* A line of the input file is modelled by what line.strip() and           *)
(* json.loads make of it: a blank line, a line json.loads rejects, or a    *)
(* JSON value, which is an object (a function from keys to strings) or a   *)
(* number.                                                                 *)
(***************************************************************************)
MaxLines == 3

BlankLine == [kind |-> "blank"]

GarbageLine == [kind |-> "garbage"]

ObjectLine(fields) == [kind |-> "json", type |-> "object", fields |-> fields]

NumberLine == [kind |-> "json", type |-> "number"]

AlignedPair ==
    [source |-> <<"a", NL, "a">>, target |-> <<"a">> \o SentBr \o <<"a">>]

MisalignedPair == [source |-> <<"a", NL, "a">>, target |-> <<"a", "a">>]

NoSource == [target |-> <<"a">>]

Lines ==
    {BlankLine, GarbageLine, NumberLine, ObjectLine(AlignedPair),
     ObjectLine(MisalignedPair), ObjectLine(NoSource)}

\* lines 120-122: the entry recorded for a line json.loads rejects
DecodeErrorEntry(n) ==
    [line_number |-> n, error |-> "JSONDecodeError", line |-> "garbage"]

\* line 130: data_point["line_number"] = line_number
WithLineNumber(data_point, n) ==
    [k \in DOMAIN data_point \cup {"line_number"} |->
        IF k = "line_number" THEN n ELSE data_point[k]]

\* The body of the for loop for line n (lines 114-139): what it does to the
\* two lists, or that it raises. `"source" not in data_point` raises a
\* TypeError when data_point is a number.
LineStep(line, n, valid, invalid) ==
    IF line.kind = "blank"
    THEN [raised |-> FALSE, valid |-> valid, invalid |-> invalid]
    ELSE IF line.kind = "garbage"
    THEN [raised |-> FALSE, valid |-> valid,
          invalid |-> Append(invalid, DecodeErrorEntry(n))]
    ELSE IF line.type # "object"
    THEN [raised |-> TRUE, valid |-> valid, invalid |-> invalid]
    ELSE IF "source" \notin DOMAIN line.fields
            \/ "target" \notin DOMAIN line.fields
    THEN [raised |-> FALSE, valid |-> valid,
          invalid |-> Append(invalid, WithLineNumber(line.fields, n))]
    ELSE IF replace_sentence_breaks_and_validate(line.fields.source,
                                                 line.fields.target)
    THEN [raised |-> FALSE, valid |-> Append(valid, line.fields),
          invalid |-> invalid]
    ELSE [raised |-> FALSE, valid |-> valid,
          invalid |-> Append(invalid, line.fields)]

\* lines 102-112: the lists are created and the input file is looked for
OpenInput ==
    /\ ppc = "call"
    /\ valid_data_points' = <<>>
    /\ invalid_data_points' = <<>>
    /\ IF input_exists
       THEN /\ ppc' = "reading"
            /\ UNCHANGED <<exit, returned_lists>>
       ELSE /\ ppc' = "returned"
            /\ exit' = "missing"
            /\ returned_lists' = NoLists
    /\ UNCHANGED <<infile, input_exists, unreadable_line, line_number,
                   vvars, dvars>>

\* lines 113-142: one iteration of the loop; any exception, from the read or
\* from the body, ends the call in the outer except clause
ReadLine ==
    /\ ppc = "reading"
    /\ line_number < Len(infile)
    /\ LET n == line_number + 1
           r == LineStep(infile[n], n, valid_data_points, invalid_data_points)
       IN  /\ line_number' = n
           /\ IF unreadable_line = n \/ r.raised
              THEN /\ ppc' = "returned"
                   /\ exit' = "except"
                   /\ returned_lists' = NoLists
                   /\ UNCHANGED <<valid_data_points, invalid_data_points>>
              ELSE /\ valid_data_points' = r.valid
                   /\ invalid_data_points' = r.invalid
                   /\ UNCHANGED <<ppc, exit, returned_lists>>
    /\ UNCHANGED <<infile, input_exists, unreadable_line, vvars, dvars>>

\* line 145
ReturnLists ==
    /\ ppc = "reading"
    /\ line_number = Len(infile)
    /\ ppc' = "returned"
    /\ exit' = "end"
    /\ returned_lists' =
           [valid |-> valid_data_points, invalid |-> invalid_data_points]
    /\ UNCHANGED <<infile, input_exists, unreadable_line, line_number,
                   valid_data_points, invalid_data_points, vvars, dvars>>

InitP ==
    /\ VIdle
    /\ DIdle
    /\ infile \in Lists(Lines, MaxLines)
    /\ input_exists \in BOOLEAN
    /\ unreadable_line \in 0..Len(infile)
    /\ ppc = "call"
    /\ line_number = 0
    /\ valid_data_points = <<>>
    /\ invalid_data_points = <<>>
    /\ exit = "none"
    /\ returned_lists = NoLists

NextP ==
    \/ OpenInput
    \/ ReadLine
    \/ ReturnLists

SpecP == InitP /\ [][NextP]_vars

(***************************************************************************)
(* Vocabulary of the batch pipeline's claims.                              *)
(***************************************************************************)

\* What a list holds of a record: its source, its target and its filename
\* when it has a non-empty one.
AsStored(entry) ==
    IF "filename" \in DOMAIN entry /\ entry.filename # ""
    THEN [source |-> entry.source, target |-> entry.target, filename |-> entry.filename]
    ELSE [source |-> entry.source, target |-> entry.target]

\* The records of data at the positions of P, from position i on, in order.
RECURSIVE PickFrom(_, _, _)
PickFrom(data, i, P) ==
    IF i > Len(data) THEN <<>>
    ELSE (IF i \in P THEN <<AsStored(data[i])>> ELSE <<>>) \o PickFrom(data, i + 1, P)

\* First occurrence wins: the positions from i on whose sketch collides with
\* no sketch accepted before them.
RECURSIVE FirstOccurrences(_, _, _)
FirstOccurrences(data, i, accepted) ==
    IF i > Len(data) THEN {}
    ELSE LET m == MinHash(data[i].source)
         IN  IF \E a \in accepted : LshCollide(a, m)
             THEN FirstOccurrences(data, i + 1, accepted)
             ELSE { i } \cup FirstOccurrences(data, i + 1, accepted \cup { m })

Sketches(index) == { index[k] : k \in DOMAIN index }

\* data processed with one index as consecutive batches that end at the
\* positions of cuts (and at the end), each started at its first record's
\* position.
RECURSIVE SplitRun(_, _, _, _, _, _)
SplitRun(data, start, cuts, index, uniq, dup) ==
    IF start >= Len(data) THEN [unique |-> uniq, duplicate |-> dup, raised |-> FALSE]
    ELSE LET later == { c \in cuts : c > start /\ c < Len(data) }
             stop  == IF later = {} THEN Len(data)
                      ELSE CHOOSE c \in later : \A e \in later : c <= e
             r     == create_deduplicated_chunk(Slice(data, start, stop), start, index)
         IN  IF r.raised THEN [unique |-> uniq, duplicate |-> dup, raised |-> TRUE]
             ELSE SplitRun(data, stop, cuts, r.lsh,
                           uniq \o r.unique_entries, dup \o r.duplicated_entries)

\* The two collections one uninterrupted run leaves: every batch of
\* chunk_size records in turn, all of them appended.
Uninterrupted ==
    SplitRun(json_data, 0, { k * chunk_size : k \in 1..total_batches },
             EmptyLsh, <<>>, <<>>)

FirstRunDone == pc = "done" /\ completed = 1

(***************************************************************************)
(* C1 as stated: when the last run of a history completes (one             *)
(* uninterrupted run, or a run killed at any point and re-invoked until a  *)
(* run completes), the persisted unique count plus the persisted duplicate *)
(* count equals the number of input records.                               *)
(***************************************************************************)
C1_AsStated ==
    FirstRunDone =>
        Len(output_file.entries) + Len(duplicates_output_file.entries) = total_rows

(***************************************************************************)
(* C2: a run killed between batches, any number of times, and re-invoked   *)
(* until it completes leaves the same unique collection and the same       *)
(* duplicate collection as one uninterrupted run on that input.            *)
(***************************************************************************)
C2_ResumeEqualsUninterrupted ==
    (FirstRunDone /\ kills_between_batches) =>
        /\ output_file.entries = Uninterrupted.unique
        /\ duplicates_output_file.entries = Uninterrupted.duplicate

C2_Witness ==
    /\ FirstRunDone /\ kills_between_batches /\ kills >= 1
    /\ processed_batches >= 1 /\ processed_batches < total_batches
    /\ total_rows % chunk_size # 0
    /\ Len(output_file.entries) >= 2
    /\ Len(duplicates_output_file.entries) >= 1

(***************************************************************************)
(* C3: create_deduplicated_chunk partitions its batch: every record of the *)
(* batch is (as stored) in exactly one of the two returned lists, the      *)
(* lengths add up to the batch's, and each list is in batch order.         *)
(***************************************************************************)
C3_ChunkPartition ==
    pc # "failed" =>
        LET n == Len(call.chunk)
        IN  /\ Len(call.unique_entries) + Len(call.duplicated_entries) = n
            /\ \E U \in SUBSET (1..n) :
                  /\ call.unique_entries = PickFrom(call.chunk, 1, U)
                  /\ call.duplicated_entries = PickFrom(call.chunk, 1, (1..n) \ U)

C3_Witness ==
    /\ Len(call.chunk) = 2
    /\ Len(call.unique_entries) = 1
    /\ Len(call.duplicated_entries) = 1
    /\ pc # "failed"

(***************************************************************************)
(* C4: first occurrence wins. In every call a record is a duplicate iff    *)
(* its sketch collides with one in the index or with that of a record      *)
(* accepted as unique earlier in the batch, and is otherwise unique; so an *)
(* uninterrupted run keeps exactly the first occurrences in corpus order.  *)
(***************************************************************************)
C4_FirstOccurrenceWins ==
    /\ pc # "failed" =>
          LET n == Len(call.chunk)
              U == FirstOccurrences(call.chunk, 1, Sketches(call.lsh))
          IN  /\ call.unique_entries = PickFrom(call.chunk, 1, U)
              /\ call.duplicated_entries = PickFrom(call.chunk, 1, (1..n) \ U)
    /\ (FirstRunDone /\ kills = 0) =>
          LET U == FirstOccurrences(json_data, 1, {})
          IN  /\ output_file.entries = PickFrom(json_data, 1, U)
              /\ duplicates_output_file.entries =
                     PickFrom(json_data, 1, (1..total_rows) \ U)

\* A run over A, B, C with B like A and C like B but not like A: A and C are
\* kept, B is the duplicate.
C4_Witness ==
    /\ FirstRunDone /\ kills = 0
    /\ total_rows >= 3
    /\ LshCollide(MinHash(json_data[1].source), MinHash(json_data[2].source))
    /\ LshCollide(MinHash(json_data[2].source), MinHash(json_data[3].source))
    /\ ~LshCollide(MinHash(json_data[1].source), MinHash(json_data[3].source))
    /\ SubSeq(output_file.entries, 1, 2) = <<AsStored(json_data[1]), AsStored(json_data[3])>>
    /\ Head(duplicates_output_file.entries) = AsStored(json_data[2])

(***************************************************************************)
(* C5: batch-split invariance. A record sequence processed with one index  *)
(* as a single batch, or as consecutive batches of any sizes each started  *)
(* at its first record's position, gives the same unique records and the   *)
(* same duplicate records; the run's own batches are one such split.       *)
(***************************************************************************)
C5_SplitInvariance ==
    pc = "done" =>
        LET one == create_deduplicated_chunk(json_data, 0, EmptyLsh)
        IN  /\ \A cuts \in SUBSET (1..(total_rows - 1)) :
                  LET r == SplitRun(json_data, 0, cuts, EmptyLsh, <<>>, <<>>)
                  IN  /\ ~r.raised
                      /\ r.unique = one.unique_entries
                      /\ r.duplicate = one.duplicated_entries
            /\ (completed = 1 /\ kills = 0) =>
                  /\ output_file.entries = one.unique_entries
                  /\ duplicates_output_file.entries = one.duplicated_entries

C5_Witness ==
    /\ FirstRunDone /\ kills = 0
    /\ total_batches >= 2 /\ total_rows = MaxRows
    /\ Len(output_file.entries) >= 2
    /\ Len(duplicates_output_file.entries) >= 1

(***************************************************************************)
(* Vocabulary of the validator's claims.                                   *)
(***************************************************************************)

\* No <sent_br> starts anywhere in s.
NoToken(s) == \A i \in 0..(Len(s) - 1) : ~StartsWith(s, SentBr, i)

HasNewline(s) == \E i \in 1..Len(s) : s[i] = NL

\* s with every newline replaced by the token.
RECURSIVE NewlinesToTokens(_)
NewlinesToTokens(s) ==
    IF s = <<>> THEN <<>>
    ELSE (IF Head(s) = NL THEN SentBr ELSE <<Head(s)>>) \o NewlinesToTokens(Tail(s))

RemoveNewlines(s) == SelectSeq(s, LAMBDA c : c # NL)

\* s without the n characters that follow its first p.
DeleteAt(s, p, n) == SubSeq(s, 1, p) \o SubSeq(s, p + n + 1, Len(s))

\* The characters a substitution may write.
Alphabet == { "a", "b", NL, SP, "<", "r", ">" }

S_ == RemoveSpaces(source)
T_ == RemoveSpaces(target)

Returned == vpc = "returned"

\* The tokens the walk met where the source had no newline.
DroppedTokens == { j \in 1..Len(steps.log) : steps.log[j].kind = "br_dropped" }

\* Deleting the token at p joins no new token out of its neighbours.
JoinsNoToken(t, p) ==
    \A i \in 0..(Len(t) - 1) :
        (i < p /\ p < i + Len(SentBr)) => ~StartsWith(DeleteAt(t, p, Len(SentBr)), SentBr, i)

(***************************************************************************)
(* C6 as stated: for every pair whose target contains no <sent_br>, the    *)
(* validator returns true iff source and target are identical after        *)
(* removing all spaces.                                                    *)
(***************************************************************************)
C6_AsStated ==
    (Returned /\ NoToken(target)) => (result <=> (S_ = T_))

\* C6, amended: for every pair whose target, once its spaces are removed,
\* contains no <sent_br>, the validator returns true iff source and target
\* are identical after removing all spaces.
C6_TokenFreeIffEqual ==
    (Returned /\ NoToken(T_)) => (result <=> (S_ = T_))

C6_Witness ==
    /\ Returned /\ NoToken(T_) /\ result
    /\ Len(S_) >= 2 /\ Len(source) > Len(S_) /\ HasNewline(S_)

(***************************************************************************)
(* C7 as stated: for every source S, the target formed from S by removing  *)
(* all spaces and replacing every newline with <sent_br> is accepted.      *)
(***************************************************************************)
C7_AsStated ==
    (Returned /\ target = NewlinesToTokens(S_)) => result

\* C7, amended: for every source S whose space-stripped form does not spell
\* <sent_br>, the target formed from S by removing all spaces and replacing
\* every newline with <sent_br> is accepted.
C7_CanonicalTargetAccepted ==
    (Returned /\ NoToken(S_) /\ target = NewlinesToTokens(S_)) => result

C7_Witness ==
    /\ Returned /\ NoToken(S_) /\ target = NewlinesToTokens(S_) /\ result
    /\ HasNewline(S_) /\ Len(source) > Len(S_) /\ Len(S_) >= 2

(***************************************************************************)
(* C8 as stated: deleting from the target a <sent_br> that the walk meets  *)
(* where the source has no newline leaves the validator's result unchanged.*)
(***************************************************************************)
C8_AsStated ==
    Returned =>
        \A j \in DroppedTokens :
            replace_sentence_breaks_and_validate(
                source, DeleteAt(T_, steps.log[j].t, Len(SentBr))) = result

\* C8, amended: deleting from the target a <sent_br> that the walk meets
\* where the source has no newline leaves the result unchanged, provided the
\* characters around the deleted token do not join into a new <sent_br>.
C8_SpuriousTokenIrrelevant ==
    Returned =>
        \A j \in DroppedTokens :
            JoinsNoToken(T_, steps.log[j].t) =>
                replace_sentence_breaks_and_validate(
                    source, DeleteAt(T_, steps.log[j].t, Len(SentBr))) = result

C8_Witness ==
    /\ Returned /\ result
    /\ \E j \in DroppedTokens :
          /\ JoinsNoToken(T_, steps.log[j].t)
          /\ steps.log[j].s < Len(S_)
    /\ HasNewline(S_)

(***************************************************************************)
(* C9 as stated: the validator returns false whenever the target ends      *)
(* while source characters remain unmatched, and whenever the target       *)
(* differs from a valid target by one substituted character.               *)
(***************************************************************************)
C9_ShortTargetRejected ==
    (Returned /\ ~steps.early /\ steps.src_idx < Len(S_)) => ~result

C9_AsStated ==
    /\ C9_ShortTargetRejected
    /\ (Returned /\ result) =>
          \A i \in 1..Len(target) : \A c \in Alphabet \ { target[i] } :
              ~replace_sentence_breaks_and_validate(source, [target EXCEPT ![i] = c])

\* C9, amended: the validator returns false whenever the target ends while
\* source characters remain unmatched, and whenever the target differs from
\* a valid target by one substituted character, unless the substitution
\* exchanges a space and a newline character.
C9_ShortOrSubstitutedRejected ==
    /\ C9_ShortTargetRejected
    /\ (Returned /\ result) =>
          \A i \in 1..Len(target) : \A c \in Alphabet \ { target[i] } :
              ({ c, target[i] } # { SP, NL }) =>
                  ~replace_sentence_breaks_and_validate(source, [target EXCEPT ![i] = c])

C9_Witness ==
    /\ Returned /\ result /\ Len(target) >= 3
    /\ \E i \in 1..Len(target) : target[i] = SP
    /\ \E i \in 1..Len(target) : target[i] = NL

(***************************************************************************)
(* C10 as stated: whenever the validator returns true, the space-stripped  *)
(* source equals the reconstruction of the target, and every newline of    *)
(* the source is matched at its position by a token of the target; a       *)
(* target with the source's characters and no token where the source has   *)
(* a newline is rejected, and with <sent_br> at each newline is accepted.  *)
(***************************************************************************)
C10_Reconstruction ==
    (Returned /\ result) => reconstructed_target = S_

C10_OmittedTokenRejected ==
    (Returned /\ HasNewline(S_) /\ T_ = RemoveNewlines(S_)) => ~result

C10_AsStated ==
    /\ C10_Reconstruction
    /\ (Returned /\ result) =>
          \A k \in 0..(Len(S_) - 1) :
              S_[k + 1] = NL =>
                  \E j \in 1..Len(steps.log) :
                      steps.log[j].s = k /\ steps.log[j].kind = "br_newline"
    /\ C10_OmittedTokenRejected
    /\ (Returned /\ HasNewline(S_) /\ T_ = NewlinesToTokens(S_)) => result

\* C10, amended: whenever the validator returns true, the space-stripped
\* source equals the reconstruction of the target, and every newline of the
\* source is matched at its position by a token or by a newline character of
\* the target; a target with the source's characters and nothing where the
\* source has a newline is rejected, and with <sent_br> at each newline it is
\* accepted when the source does not spell <sent_br> itself.
C10_AcceptedMeansReconstructed ==
    /\ C10_Reconstruction
    /\ (Returned /\ result) =>
          \A k \in 0..(Len(S_) - 1) :
              S_[k + 1] = NL =>
                  \E j \in 1..Len(steps.log) :
                      steps.log[j].s = k /\ steps.log[j].kind \in { "br_newline", "char" }
    /\ C10_OmittedTokenRejected
    /\ (Returned /\ HasNewline(S_) /\ NoToken(S_) /\ T_ = NewlinesToTokens(S_)) => result

C10_Witness ==
    /\ Returned /\ result
    /\ Len(S_) = 3 /\ S_[2] = NL /\ S_[1] # NL /\ S_[3] # NL
    /\ \E j \in 1..Len(steps.log) : steps.log[j].kind = "br_newline"

(***************************************************************************)
(* Vocabulary of the line driver's claims.                                 *)
(***************************************************************************)
ReturnedP == ppc = "returned"

NonBlankLines == {n \in 1..Len(infile) : infile[n].kind # "blank"}

\* the three causes for which a line belongs in the invalid list
ParseFailure(n) == infile[n].kind = "garbage"

MissingKey(n) ==
    /\ infile[n].kind = "json"
    /\ infile[n].type = "object"
    /\ ~({"source", "target"} \subseteq DOMAIN infile[n].fields)

AlignmentFailure(n) ==
    /\ infile[n].kind = "json"
    /\ infile[n].type = "object"
    /\ {"source", "target"} \subseteq DOMAIN infile[n].fields
    /\ ~replace_sentence_breaks_and_validate(infile[n].fields.source,
                                             infile[n].fields.target)

InvalidLines ==
    {n \in 1..Len(infile) :
        ParseFailure(n) \/ MissingKey(n) \/ AlignmentFailure(n)}

\* the line the i-th invalid entry comes from
NthInvalidLine(i) ==
    CHOOSE n \in InvalidLines :
        Cardinality({m \in InvalidLines : m <= n}) = i

(***************************************************************************)
(* C11 as stated: every entry of the invalid list returned by              *)
(* process_tibetan_sentences has a line_number field holding the 1-based   *)
(* number of the input line it comes from, whether the line failed to      *)
(* parse, lacked source or target, or failed the alignment.                *)
(***************************************************************************)
C11_AsStated ==
    (ReturnedP /\ exit = "end") =>
        /\ Len(returned_lists.invalid) = Cardinality(InvalidLines)
        /\ \A i \in 1..Len(returned_lists.invalid) :
              /\ "line_number" \in DOMAIN returned_lists.invalid[i]
              /\ returned_lists.invalid[i].line_number = NthInvalidLine(i)

(***************************************************************************)
(* C12 as stated: a readable input file is processed to its last line      *)
(* whatever its lines hold: the call ends by the final return, and the     *)
(* valid and invalid lists it returns together have one entry per          *)
(* non-empty line.                                                         *)
(***************************************************************************)
C12_AsStated ==
    (ReturnedP /\ input_exists /\ unreadable_line = 0) =>
        /\ exit = "end"
        /\ Len(returned_lists.valid) + Len(returned_lists.invalid)
               = Cardinality(NonBlankLines)

(***************************************************************************)
(* C14 as stated: when the input file is missing or a read of it fails,    *)
(* process_tibetan_sentences does not return a result to its caller.       *)
(***************************************************************************)
C14_AsStated ==
    (~input_exists \/ unreadable_line > 0) => ~ReturnedP

(***************************************************************************)
(* C15 as stated: when the walk over the target ends without a mismatch    *)
(* and every source character left unconsumed is a newline, the validator  *)
(* does not reject the pair because of these trailing newlines.            *)
(***************************************************************************)
OnlyNewlinesLeft ==
    /\ steps.src_idx < Len(S_)
    /\ \A k \in (steps.src_idx + 1)..Len(S_) : S_[k] = NL

C15_AsStated ==
    (Returned /\ ~steps.early /\ OnlyNewlinesLeft) => result

(***************************************************************************)
(* C13 as stated (its half on lengths): a run never enters its batch loop  *)
(* on persisted collections whose combined length no checkpoint could have *)
(* produced, that is, a length that is neither a whole number of batches   *)
(* nor the input count, or that exceeds the input count: such a start      *)
(* stops with an error before any batch.                                   *)
(***************************************************************************)
PersistedCount == Len(output_file.entries) + Len(duplicates_output_file.entries)

ImpossibleCount ==
    \/ PersistedCount % chunk_size # 0 /\ PersistedCount # total_rows
    \/ PersistedCount > total_rows

\* the loop head of a run that has processed no batch yet
AtFirstLoopHead == pc = "loop" /\ batch_num = processed_batches

C13_AsStated ==
    (AtFirstLoopHead /\ output_file.exists /\ duplicates_output_file.exists)
        => ~ImpossibleCount

(***************************************************************************)
(* C20 as stated: a run that completed, invoked again on the same input    *)
(* with the same chunk_size and checkpoint_interval and never killed,      *)
(* completes with both persisted collections exactly as the first run left *)
(* them, for every input size.                                             *)
(***************************************************************************)
SecondRunDone == pc = "done" /\ completed = 2 /\ kills = 0

C20_AsStated ==
    SecondRunDone =>
        /\ output_file.entries = Uninterrupted.unique
        /\ duplicates_output_file.entries = Uninterrupted.duplicate

(***************************************************************************)
(* C16: index insertion discipline. At the start of a run the index holds  *)
(* exactly one entry per persisted unique record, with that record's       *)
(* sketch. A step of the run removes or changes no index entry; a batch    *)
(* adds exactly one entry, with the record's sketch, for each record of    *)
(* the batch accepted as unique (none for a duplicate), and every other    *)
(* step adds none; so no sketch is in the index twice.                     *)
(***************************************************************************)
StartStep == pc \in {"idle", "done"} /\ pc' \in {"loop", "init_duplicates"}

RunStep == Running /\ pc' # "idle"

BatchStep == RunStep /\ pc = "loop" /\ batch_num < total_batches

\* the batch the loop is about to process, restated from the input
NextBatch ==
    [i \in 1..(Min((batch_num + 1) * chunk_size, Len(json_data))
                   - batch_num * chunk_size) |->
        json_data[batch_num * chunk_size + i]]

NoSketchTwice(index) ==
    \A k1, k2 \in DOMAIN index : k1 # k2 => index[k1] # index[k2]

C16_InsertionDiscipline ==
    [][/\ StartStep =>
            /\ Cardinality(DOMAIN lsh') = Len(output_file'.entries)
            /\ Sketches(lsh') =
                   { MinHash(output_file'.entries[i].source) :
                         i \in 1..Len(output_file'.entries) }
       /\ RunStep =>
            /\ \A k \in DOMAIN lsh : k \in DOMAIN lsh' /\ lsh'[k] = lsh[k]
            /\ NoSketchTwice(lsh')
            /\ IF BatchStep
               THEN /\ DOMAIN lsh' \ DOMAIN lsh =
                           { batch_num * chunk_size + i - 1 :
                               i \in FirstOccurrences(NextBatch, 1, Sketches(lsh)) }
                    /\ \A k \in DOMAIN lsh' \ DOMAIN lsh :
                           lsh'[k] = MinHash(json_data[k + 1].source)
               ELSE DOMAIN lsh' = DOMAIN lsh
      ]_vars

\* a resumed run has added a new unique record to a replayed index
C16_Witness ==
    /\ kills > 0
    /\ pc \in {"loop", "save_duplicates"}
    /\ DOMAIN call.lsh # {}
    /\ Len(call.unique_entries) > 0
    /\ Cardinality(DOMAIN lsh) > Cardinality(DOMAIN call.lsh)

(***************************************************************************)
(* C17: index ids are never reused inside a run. Whenever a run is about   *)
(* to process a batch, the id start_idx + offset of every record the batch *)
(* will accept as unique is absent from the index (in a resumed run, the   *)
(* ids 0..N-1 of the replayed records included), so lsh.insert never       *)
(* raises and no run fails.                                                *)
(***************************************************************************)
C17_IdsNeverReused ==
    /\ pc # "failed"
    /\ (pc = "loop" /\ batch_num < total_batches) =>
          \A i \in FirstOccurrences(NextBatch, 1, Sketches(lsh)) :
              batch_num * chunk_size + i - 1 \notin DOMAIN lsh

\* a resumed run is about to insert a new id into an index of replayed ids
C17_Witness ==
    /\ kills > 0
    /\ pc = "loop"
    /\ batch_num < total_batches
    /\ lsh = ReplayIndex(output_file.entries)
    /\ DOMAIN lsh # {}
    /\ FirstOccurrences(NextBatch, 1, Sketches(lsh)) # {}

(***************************************************************************)
(* C18: checkpoint cadence and memory bound. The buffers are written out   *)
(* and cleared exactly after each batch with                               *)
(* (batch_num + 1) % checkpoint_interval = 0 and after the final batch: at *)
(* the loop head they hold the records of the batches processed since the  *)
(* last such batch (or since the run started) and nothing else, and a      *)
(* checkpoint is only ever under way after such a batch. At every point    *)
(* the two buffers together hold at most checkpoint_interval * chunk_size  *)
(* records, and both are empty when the run completes.                     *)
(***************************************************************************)
Buffered == Len(deduplicated_entries) + Len(duplicate_entries)

\* the number of input records in the batches before batch b
RowsBefore(b) == Min(b * chunk_size, Len(json_data))

\* the first batch still buffered when b batches are behind the loop
BufferedFrom(b) ==
    IF b - (b % checkpoint_interval) > processed_batches
    THEN b - (b % checkpoint_interval)
    ELSE processed_batches

LastBatch == (Len(json_data) + chunk_size - 1) \div chunk_size - 1

C18_CheckpointCadence ==
    /\ Buffered <= checkpoint_interval * chunk_size
    /\ pc = "done" => deduplicated_entries = <<>> /\ duplicate_entries = <<>>
    /\ pc = "loop" =>
          Buffered = IF batch_num > LastBatch THEN 0
                     ELSE RowsBefore(batch_num) - RowsBefore(BufferedFrom(batch_num))
    /\ pc = "save_duplicates" =>
          /\ (batch_num + 1) % checkpoint_interval = 0 \/ batch_num = LastBatch
          /\ Buffered = RowsBefore(batch_num + 1) - RowsBefore(BufferedFrom(batch_num))
    /\ (Running /\ kills = 0 /\ completed = 0 /\ pc # "init_duplicates") =>
          Len(output_file.entries) + Len(duplicates_output_file.entries)
              + (IF pc = "save_duplicates" THEN Len(duplicate_entries) ELSE Buffered)
                  = RowsBefore(IF pc = "save_duplicates" THEN batch_num + 1 ELSE batch_num)

\* a checkpoint that writes out more than one batch
C18_Witness ==
    /\ pc = "save_duplicates"
    /\ Buffered > chunk_size
    /\ (batch_num + 1) % checkpoint_interval = 0

(***************************************************************************)
(* C19: resume detection. A run that finds both files at its start leaves  *)
(* them as they are, starts its loop at batch                              *)
(* (len(unique) + len(duplicate)) // chunk_size and fills the index with   *)
(* exactly the sketches of the persisted unique records, one per record.   *)
(* A run that finds at least one file missing writes both files anew as    *)
(* empty collections, whatever the other one held, and starts at batch 0   *)
(* with an empty index.                                                    *)
(***************************************************************************)
EmptyCollection == [exists |-> TRUE, entries |-> <<>>]

C19_ResumeDetection ==
    [][/\ (StartStep /\ output_file.exists /\ duplicates_output_file.exists) =>
            /\ pc' = "loop"
            /\ output_file' = output_file
            /\ duplicates_output_file' = duplicates_output_file
            /\ processed_batches' = PersistedCount \div chunk_size
            /\ batch_num' = PersistedCount \div chunk_size
            /\ DOMAIN lsh' = 0..(Len(output_file.entries) - 1)
            /\ \A i \in 1..Len(output_file.entries) :
                   lsh'[i - 1] = MinHash(output_file.entries[i].source)
       /\ (StartStep /\ ~(output_file.exists /\ duplicates_output_file.exists)) =>
            /\ pc' = "init_duplicates"
            /\ output_file' = EmptyCollection
            /\ DOMAIN lsh' = {}
            /\ processed_batches' = 0
            /\ batch_num' = 0
       /\ (pc = "init_duplicates" /\ pc' = "loop") =>
            /\ output_file' = EmptyCollection
            /\ duplicates_output_file' = EmptyCollection
            /\ DOMAIN lsh' = {}
            /\ processed_batches' = 0
            /\ batch_num' = 0
      ]_vars

\* a resumed run at its first loop head, past batch 0, with a replayed index
C19_Witness ==
    /\ AtFirstLoopHead
    /\ processed_batches > 0
    /\ Len(output_file.entries) > 1
    /\ lsh = ReplayIndex(output_file.entries)
    /\ call = NoCall
    /\ kills > 0
====
